---- MODULE Spec2Model ----
(***************************************************************************)
(* A model of cstring.c, the byte-string extension type `cstring`.         *)
(*                                                                         *)
(* An object is a record [refcnt, hash, value]: `value` is the flexible    *)
(* array `char value[]` with its terminator, so Py_SIZE(o) = Len(o.value). *)
(* Bytes are their integer codes (0 = NUL, 32 = space, 97 = 'a', ...).     *)
(* C offsets are 0-based: Rd(b, i) is b[i] of the C code.                  *)
(*                                                                         *)
(* One call is one behaviour: Init draws the method (`op`), the receiver   *)
(* (`self`) and the arguments (`arg`); the method's action runs the        *)
(* handler and leaves its return value in `ret`.  The loops of count and   *)
(* of the explicit-separator split are modelled one iteration per step     *)
(* (`cur` is the C cursor, `acc` the accumulated result).  Where the       *)
(* identity of objects matters (_concat_in_place, the loop of join),       *)
(* `heap` maps the addresses of the live objects to the objects and the    *)
(* calls pass addresses.                                                   *)
(***************************************************************************)
EXTENDS Integers, Sequences, FiniteSets, TLC

VARIABLES op, pc, self, arg, ret, cur, acc, mem, heap

vars == <<op, pc, self, arg, ret, cur, acc, mem, heap>>

(***************************************************************************)
(* Bounds of the model.                                                    *)
(***************************************************************************)
\* longest receiver value (bytes before the terminator)
MaxLen == 3
\* longest needle / separator / pattern
MaxNeedle == 2
\* how many bytes of memory are modelled on either side of the value
MaxSlack == 2
\* how many objects the heap has room for
MaxObjects == 5

(***************************************************************************)
(* Program constants.                                                      *)
(***************************************************************************)
\* the "not yet computed" hash (new->hash = -1)
HASH_UNSET == -1
\* a NULL char pointer, as an offset (offsets returned by searches are >= 0)
NULL == -1
\* Py_ssize_t's maximum, the default `end`.  TLC's integers are 32 bits wide;
\* the code only needs it to exceed every length.
PY_SSIZE_T_MAX == 2147483647
\* " \t\n\v\f\r"
WHITESPACE_CHARS == <<32, 9, 10, 11, 12, 13>>

(***************************************************************************)
(* Helpers.                                                                *)
(***************************************************************************)
Min(S) == CHOOSE x \in S : \A y \in S : x <= y
Max(S) == CHOOSE x \in S : \A y \in S : x >= y
SeqsUpTo(S, n) == UNION {[1..k -> S] : k \in 0..n}
Range(s) == {s[i] : i \in 1..Len(s)}
NoZero(s) == 0 \notin Range(s)

\* b[i] of the C code, for an offset inside the buffer
Rd(b, i) == b[i + 1]

\* the value's bytes without the terminator: what cstring_len counts
Bytes(o) == SubSeq(o.value, 1, Len(o.value) - 1)

(***************************************************************************)
(* The C library, on a buffer and an offset into it.                       *)
(***************************************************************************)
RECURSIVE strlen(_, _)
strlen(b, from) == IF Rd(b, from) = 0 THEN 0 ELSE 1 + strlen(b, from + 1)

\* memcmp(b + i, n, len) == 0.  A comparison ends at its first difference, and
\* every caller's span either lies inside b or differs at b's terminator.
memcmp_eq(b, i, n, len) ==
    \A j \in 0..(len - 1) : i + j < Len(b) /\ Rd(b, i + j) = Rd(n, j)

\* strstr(b + from, n): the first occurrence of the C string n in the C string
\* at b + from, or NULL.
strstr(b, from, n) ==
    LET hl == strlen(b, from)
        nl == strlen(n, 0)
        hits == {i \in from..(from + hl - nl) : memcmp_eq(b, i, n, nl)}
    IN  IF hits = {} THEN NULL ELSE Min(hits)

\* strchr(chars, c) != NULL: the terminator of chars is part of the string, so
\* c = 0 is always found.
strchr(chars, c) == c = 0 \/ c \in Range(chars)

isupper(c) == c \in 65..90
islower(c) == c \in 97..122
isalpha(c) == isupper(c) \/ islower(c)
isdigit(c) == c \in 48..57
isalnum(c) == isalpha(c) \/ isdigit(c)
isspace(c) == c \in Range(WHITESPACE_CHARS)
isprint(c) == c \in 32..126
tolower(c) == IF isupper(c) THEN c + 32 ELSE c
toupper(c) == IF islower(c) THEN c - 32 ELSE c

(***************************************************************************)
(* Objects.                                                                *)
(***************************************************************************)
\* _Py_HashBytes(value, Py_SIZE): a function of the bytes alone, never -1.
RECURSIVE HashFold(_, _)
HashFold(s, h) ==
    IF s = <<>> THEN h ELSE HashFold(Tail(s), (h * 31 + Head(s) + 7) % 8191)

_Py_HashBytes(s) == 1 + HashFold(s, 17)

\* CSTRING_ALLOC: tp_alloc hands out zeroed memory, so hash = 0 and the bytes
\* are 0 until written.
CSTRING_ALLOC(n) == [refcnt |-> 1, hash |-> 0, value |-> [i \in 1..n |-> 0]]

_cstring_new(bytes) ==
    [refcnt |-> 1, hash |-> HASH_UNSET, value |-> bytes \o <<0>>]

\* the singleton: cstring_new_empty returns one more reference to it
cstring_EMPTY == [refcnt |-> 2, hash |-> HASH_UNSET, value |-> <<0>>]

cstring_new_empty == cstring_EMPTY

\* cstring(bytes): the constructor on a bytes-like argument
cstring_new(bytes) ==
    IF Len(bytes) = 0 THEN cstring_new_empty ELSE _cstring_new(bytes)

cstring_len(o) == Len(o.value) - 1

(***************************************************************************)
(* The search family: count, find, index, rfind, rindex.                   *)
(***************************************************************************)
\* a _fix_index that forgets that negative indices count from the end
_fix_index_no_wrap(i, len) ==
    IF i < 0 THEN 0 ELSE IF i > len THEN len ELSE i

_fix_index(i, len) ==
    LET r1 == IF i < 0 THEN i + len ELSE i
        r2 == IF r1 < 0 THEN 0 ELSE r1
    IN  IF r2 > len THEN len ELSE r2

\* struct _substr_params, with start and end as offsets into self's buffer.
\* The needle's buffer is a C string: its bytes and a terminator.
_parse_substr_args(o, a) ==
    [start |-> _fix_index(a.start, cstring_len(o)),
     end |-> _fix_index(a.end, cstring_len(o)),
     substr |-> a.needle \o <<0>>,
     substr_len |-> Len(a.needle)]

_substr_params_str(o, params) ==
    LET p == strstr(o.value, params.start, params.substr)
    IN  IF p = NULL \/ p + params.substr_len > params.end THEN NULL ELSE p

\* _memrchr(b + s, c, n).  n is a size_t: a negative count wraps, s + n - 1
\* wraps back to an address below s, and the loop body never runs.
RECURSIVE memrchr_from(_, _, _, _)
memrchr_from(b, s, c, p) ==
    IF p < s THEN NULL
    ELSE IF Rd(b, p) = c THEN p
    ELSE memrchr_from(b, s, c, p - 1)

_memrchr(b, s, c, n) == memrchr_from(b, s, c, s + n - 1)

RECURSIVE rstr_loop(_, _, _)
rstr_loop(o, params, p) ==
    LET q == _memrchr(o.value, params.start, Rd(params.substr, 0),
                      p - params.start)
    IN  IF q = NULL THEN NULL
        ELSE IF memcmp_eq(o.value, q, params.substr, params.substr_len) THEN q
        ELSE rstr_loop(o, params, q)

_substr_params_rstr(o, params) ==
    rstr_loop(o, params, params.end - params.substr_len + 1)

\* the return value of a method: ok with a value, or an exception
Ok(v) == [exc |-> "none", val |-> v]
Raise(e) == [exc |-> e, val |-> NULL]

cstring_find(o, a) ==
    LET p == _substr_params_str(o, _parse_substr_args(o, a))
    IN  IF p = NULL THEN Ok(-1) ELSE Ok(p)

cstring_index(o, a) ==
    LET p == _substr_params_str(o, _parse_substr_args(o, a))
    IN  IF p = NULL THEN Raise("ValueError") ELSE Ok(p)

cstring_rfind(o, a) ==
    LET p == _substr_params_rstr(o, _parse_substr_args(o, a))
    IN  IF p = NULL THEN Ok(-1) ELSE Ok(p)

cstring_rindex(o, a) ==
    LET p == _substr_params_rstr(o, _parse_substr_args(o, a))
    IN  IF p = NULL THEN Raise("ValueError") ELSE Ok(p)

(***************************************************************************)
(* Inputs.                                                                 *)
(***************************************************************************)
\* NUL, two letters: enough for overlapping and repeated occurrences
SearchAlphabet == {0, 97, 98}

NoMem == [before |-> <<>>, after |-> <<>>]
\* no object is tracked by address
NoHeap == [a \in {} |-> NULL]
NoArg == [none |-> TRUE]
NoRet == [exc |-> "pending", val |-> NULL]

\* start and end as the caller passes them: beyond len + 1 in either direction
\* _fix_index clamps alike, and PY_SSIZE_T_MAX is the omitted end.
SubstrArgsOf(bytes) ==
    LET w == (0 - Len(bytes) - 1)..(Len(bytes) + 1)
    IN  [needle : SeqsUpTo(SearchAlphabet, MaxNeedle),
         start : w,
         end : w \cup {PY_SSIZE_T_MAX}]

\* a call of one of the methods ops is about to run
InitCall(ops) ==
    /\ op \in ops
    /\ pc = "call"
    /\ ret = NoRet
    /\ cur = 0
    /\ acc = 0
    /\ mem = NoMem
    /\ heap = NoHeap

Return(r) ==
    /\ pc' = "done"
    /\ ret' = r
    /\ UNCHANGED <<op, self, arg, cur, acc, mem, heap>>

Find == op = "find" /\ pc = "call" /\ Return(cstring_find(self, arg))
Index == op = "index" /\ pc = "call" /\ Return(cstring_index(self, arg))
RFind == op = "rfind" /\ pc = "call" /\ Return(cstring_rfind(self, arg))
RIndex == op = "rindex" /\ pc = "call" /\ Return(cstring_rindex(self, arg))

\* the receiver is constructed from some bytes, and the arguments fit it
SubstrInputs ==
    \E bytes \in SeqsUpTo(SearchAlphabet, MaxLen) :
        self = cstring_new(bytes) /\ arg \in SubstrArgsOf(bytes)

InitFind == InitCall({"find", "index"}) /\ SubstrInputs

NextFind == Find \/ Index

SpecFind == InitFind /\ [][NextFind]_vars

InitRFind == InitCall({"rfind", "rindex"}) /\ SubstrInputs

NextRFind == RFind \/ RIndex

SpecRFind == InitRFind /\ [][NextRFind]_vars

(***************************************************************************)
(* count: one loop iteration per step.  cur is p, acc is result.           *)
(***************************************************************************)
CountCall ==
    /\ op = "count" /\ pc = "call"
    /\ cur' = _parse_substr_args(self, arg).start
    /\ acc' = 0
    /\ pc' = "loop"
    /\ UNCHANGED <<op, self, arg, ret, mem, heap>>

\* while((p = strstr(p, substr)) != NULL) { ++result; p += substr_len;
\*     if(p >= end) break; }
\* With a non-empty C string as needle every match advances p, so result never
\* exceeds the length; the guard stops the model where the C loop spins on.
CountLoop ==
    /\ op = "count" /\ pc = "loop"
    /\ acc <= cstring_len(self)
    /\ LET params == _parse_substr_args(self, arg)
           q == strstr(self.value, cur, params.substr)
       IN  IF q = NULL
           THEN /\ pc' = "done"
                /\ ret' = Ok(acc)
                /\ UNCHANGED <<cur, acc>>
           ELSE /\ acc' = acc + 1
                /\ cur' = q + params.substr_len
                /\ IF q + params.substr_len >= params.end
                   THEN pc' = "done" /\ ret' = Ok(acc + 1)
                   ELSE pc' = "loop" /\ ret' = ret
    /\ UNCHANGED <<op, self, arg, mem, heap>>

InitCount == InitCall({"count"}) /\ SubstrInputs

NextCount == CountCall \/ CountLoop

SpecCount == InitCount /\ [][NextCount]_vars

(***************************************************************************)
(* What the search family is specified to return.                          *)
(***************************************************************************)
\* n occurs in v at offset i (0-based), by length, not by terminator
Occurs(v, n, i) ==
    /\ i >= 0
    /\ i + Len(n) <= Len(v)
    /\ \A j \in 1..Len(n) : v[i + j] = n[j]

\* negative values count from the end; then clamp into [0, len]
Normalise(i, len) ==
    IF i < 0 THEN (IF i + len < 0 THEN 0 ELSE i + len)
    ELSE (IF i > len THEN len ELSE i)

WinStart == Normalise(arg.start, Len(Bytes(self)))
WinEnd == Normalise(arg.end, Len(Bytes(self)))

\* the offsets in the window at which the needle occurs
WindowHits ==
    {i \in WinStart..(WinEnd - Len(arg.needle)) :
        Occurs(Bytes(self), arg.needle, i)}

Lowest == IF WindowHits = {} THEN -1 ELSE Min(WindowHits)
Greatest == IF WindowHits = {} THEN -1 ELSE Max(WindowHits)

ZeroFree == NoZero(Bytes(self)) /\ NoZero(arg.needle)

FindAgrees ==
    /\ (op = "find" /\ pc = "done") => ret = Ok(Lowest)
    /\ (op = "index" /\ pc = "done") =>
          ret = IF Lowest = -1 THEN Raise("ValueError") ELSE Ok(Lowest)

\* C3 as stated: for every value and needle, find returns the lowest offset in
\* the window at which the needle occurs, or -1; index returns the same offset
\* or raises ValueError exactly when find returns -1.
C3_FindLowest_EveryValue == FindAgrees

\* C3, amended: the same, for values and needles without embedded zero bytes
\* (the search is a C-string search and stops at the first zero byte).
C3_FindLowest == ZeroFree => FindAgrees

\* C3 witness: index found a two-byte needle at a positive offset, in a window
\* that starts at a negative index and ends at the value's end.
C3_Witness ==
    /\ op = "index" /\ pc = "done"
    /\ ZeroFree
    /\ Len(arg.needle) = 2
    /\ arg.start < 0
    /\ arg.end = Len(Bytes(self))
    /\ ret = Ok(1)

\* C4: for every value, needle (the empty one included) and window, rfind
\* returns the greatest offset in the window at which the needle occurs, or
\* -1; rindex returns the same offset or raises ValueError.  Stated on values
\* and needles free of zero bytes, where the C-string search sees every byte:
\* the claim fails there already.
C4_RFindGreatest ==
    ZeroFree =>
        /\ (op = "rfind" /\ pc = "done") => ret = Ok(Greatest)
        /\ (op = "rindex" /\ pc = "done") =>
              ret = IF Greatest = -1 THEN Raise("ValueError") ELSE Ok(Greatest)

\* the number of matches of repeated forward search inside [from, e), each
\* match moving the cursor past it
RECURSIVE CountInWindow(_, _, _, _)
CountInWindow(v, n, from, e) ==
    LET hits == {i \in from..(e - Len(n)) : Occurs(v, n, i)}
    IN  IF hits = {} THEN 0
        ELSE 1 + CountInWindow(v, n, Min(hits) + Len(n), e)

\* C5: count returns the number of non-overlapping occurrences inside the
\* window (an occurrence starting at or after end, or reaching past end, is
\* not counted), so count is 0 exactly when find returns -1.  Stated on values
\* free of zero bytes and non-empty needles free of zero bytes: the claim
\* fails there already.
C5_CountInWindow ==
    (op = "count" /\ pc = "done" /\ ZeroFree /\ Len(arg.needle) > 0) =>
        /\ ret = Ok(CountInWindow(Bytes(self), arg.needle, WinStart, WinEnd))
        /\ (ret.val = 0) <=> (cstring_find(self, arg).val = -1)

(***************************************************************************)
(* partition and rpartition.                                               *)
(***************************************************************************)
\* len bytes of buffer b from offset i
Span(b, i, len) == [k \in 1..len |-> b[i + k]]

\* _strrstr(s, find): the scan starts at the last byte and stops before
\* offset 0 (p > s).
RECURSIVE strrstr_from(_, _, _)
strrstr_from(b, n, p) ==
    IF p <= 0 THEN NULL
    ELSE IF memcmp_eq(b, p, n, strlen(n, 0)) THEN p
    ELSE strrstr_from(b, n, p - 1)

_strrstr(b, n) == strrstr_from(b, n, strlen(b, 0) - 1)

\* Py_INCREF(self), self
Incref(o) == [o EXCEPT !.refcnt = @ + 1]

\* the three new objects cut at mid, the length of the last one being
\* &CSTRING_LAST_BYTE(self) - right
partition_at(o, pat, mid) ==
    LET right == mid + strlen(pat.value, 0)
    IN  Ok(<<_cstring_new(Span(o.value, 0, mid)),
             _cstring_new(Span(o.value, mid, right - mid)),
             _cstring_new(Span(o.value, right, (Len(o.value) - 1) - right))>>)

cstring_partition(o, pat) ==
    LET mid == strstr(o.value, 0, pat.value)
    IN  IF mid = NULL
        THEN Ok(<<Incref(o), cstring_new_empty, cstring_new_empty>>)
        ELSE partition_at(o, pat, mid)

cstring_rpartition(o, pat) ==
    LET mid == _strrstr(o.value, pat.value)
    IN  IF mid = NULL
        THEN Ok(<<cstring_new_empty, cstring_new_empty, Incref(o)>>)
        ELSE partition_at(o, pat, mid)

Partition ==
    op = "partition" /\ pc = "call" /\ Return(cstring_partition(self, arg.pat))

RPartition ==
    op = "rpartition" /\ pc = "call" /\ Return(cstring_rpartition(self, arg.pat))

PatternArgsOf(bytes) ==
    [pat : {cstring_new(n) : n \in SeqsUpTo(SearchAlphabet, MaxNeedle)}]

InitPartition ==
    /\ InitCall({"partition", "rpartition"})
    /\ \E bytes \in SeqsUpTo(SearchAlphabet, MaxLen) :
          self = cstring_new(bytes) /\ arg \in PatternArgsOf(bytes)

NextPartition == Partition \/ RPartition

SpecPartition == InitPartition /\ [][NextPartition]_vars

\* the offsets at which the pattern occurs in the whole value
PatternHits ==
    {i \in 0..Len(Bytes(self)) : Occurs(Bytes(self), Bytes(arg.pat), i)}

\* the bytes of the three parts of a returned triple
Parts == <<Bytes(ret.val[1]), Bytes(ret.val[2]), Bytes(ret.val[3])>>

CutAt(v, n, i) ==
    <<SubSeq(v, 1, i), n, SubSeq(v, i + Len(n) + 1, Len(v))>>

\* C6: for every value and non-empty pattern: when the pattern occurs,
\* partition returns (v[0:i], s, v[i+len(s):]) at the lowest offset i and
\* rpartition at the greatest (offset 0 included); the no-match form is
\* returned only when the pattern occurs nowhere.  Stated on values and
\* patterns free of zero bytes: the claim fails there already.
C6_PartitionAtOccurrence ==
    (pc = "done" /\ op \in {"partition", "rpartition"}
        /\ NoZero(Bytes(self)) /\ NoZero(Bytes(arg.pat))
        /\ Len(Bytes(arg.pat)) > 0) =>
      IF PatternHits = {}
      THEN Parts = (IF op = "partition"
                    THEN <<Bytes(self), <<>>, <<>>>>
                    ELSE <<<<>>, <<>>, Bytes(self)>>)
      ELSE Parts = CutAt(Bytes(self), Bytes(arg.pat),
                         IF op = "partition" THEN Min(PatternHits)
                         ELSE Max(PatternHits))

(***************************************************************************)
(* The character-class predicates.                                         *)
(***************************************************************************)
\* while(*p) { if(!pred(*p)) return False; ++p; } return True;
\* the <ctype.h> function named cls, applied to c
ctype(cls, c) ==
    CASE cls = "alnum" -> isalnum(c)
      [] cls = "alpha" -> isalpha(c)
      [] cls = "digit" -> isdigit(c)
      [] cls = "print" -> isprint(c)
      [] cls = "space" -> isspace(c)
      [] cls = "lower" -> islower(c)
      [] cls = "upper" -> isupper(c)

RECURSIVE scan_all(_, _, _)
scan_all(b, p, cls) ==
    IF Rd(b, p) = 0 THEN TRUE
    ELSE IF ~ctype(cls, Rd(b, p)) THEN FALSE
    ELSE scan_all(b, p + 1, cls)

cstring_isalnum(o) == Ok(scan_all(o.value, 0, "alnum"))
cstring_isalpha(o) == Ok(scan_all(o.value, 0, "alpha"))
cstring_isdigit(o) == Ok(scan_all(o.value, 0, "digit"))
cstring_isprintable(o) == Ok(scan_all(o.value, 0, "print"))

\* the loop of isspace, returning p: the value is p != CSTRING_VALUE(self)
RECURSIVE isspace_scan(_, _)
isspace_scan(b, p) ==
    IF Rd(b, p) = 0 THEN p # 0
    ELSE IF ~isspace(Rd(b, p)) THEN FALSE
    ELSE isspace_scan(b, p + 1)

cstring_isspace(o) == Ok(isspace_scan(o.value, 0))

\* the inner loop of islower / isupper, after the first alphabetic byte
RECURSIVE case_rest(_, _, _)
case_rest(b, p, cls) ==
    IF Rd(b, p) = 0 THEN TRUE
    ELSE IF isalpha(Rd(b, p)) /\ ~ctype(cls, Rd(b, p)) THEN FALSE
    ELSE case_rest(b, p + 1, cls)

\* the outer loop of islower / isupper
RECURSIVE case_scan(_, _, _)
case_scan(b, p, cls) ==
    IF Rd(b, p) = 0 THEN FALSE
    ELSE IF isalpha(Rd(b, p))
         THEN (IF ~ctype(cls, Rd(b, p)) THEN FALSE
               ELSE case_rest(b, p + 1, cls))
    ELSE case_scan(b, p + 1, cls)

cstring_islower(o) == Ok(case_scan(o.value, 0, "lower"))
cstring_isupper(o) == Ok(case_scan(o.value, 0, "upper"))

IsAlnum == op = "isalnum" /\ pc = "call" /\ Return(cstring_isalnum(self))
IsAlpha == op = "isalpha" /\ pc = "call" /\ Return(cstring_isalpha(self))
IsDigit == op = "isdigit" /\ pc = "call" /\ Return(cstring_isdigit(self))
IsLower == op = "islower" /\ pc = "call" /\ Return(cstring_islower(self))
IsUpper == op = "isupper" /\ pc = "call" /\ Return(cstring_isupper(self))
IsSpace == op = "isspace" /\ pc = "call" /\ Return(cstring_isspace(self))

IsPrintable ==
    op = "isprintable" /\ pc = "call" /\ Return(cstring_isprintable(self))

\* NUL, BEL (not printable), space, a digit, an upper and a lower case letter
ClassAlphabet == {0, 7, 32, 49, 65, 97}


PredicateOps ==
    {"isalnum", "isalpha", "isdigit", "islower", "isupper", "isspace",
     "isprintable"}

InitPredicate ==
    /\ InitCall(PredicateOps)
    /\ \E bytes \in SeqsUpTo(ClassAlphabet, MaxLen) : self = cstring_new(bytes)
    /\ arg = NoArg

NextPredicate ==
    IsAlnum \/ IsAlpha \/ IsDigit \/ IsLower \/ IsUpper \/ IsSpace \/ IsPrintable

SpecPredicate == InitPredicate /\ [][NextPredicate]_vars

NonEmptyAll(v, cls) == Len(v) > 0 /\ \A i \in 1..Len(v) : ctype(cls, v[i])

CasedOnly(v, cls) ==
    /\ \E i \in 1..Len(v) : isalpha(v[i])
    /\ \A i \in 1..Len(v) : isalpha(v[i]) => ctype(cls, v[i])

\* C7: isalnum, isalpha, isdigit, isspace and isprintable are true iff the
\* value is non-empty and every byte satisfies the predicate; islower and
\* isupper are true iff the value has an alphabetic byte and none of the
\* opposite case; so each is false on the empty value.  Stated on values free
\* of zero bytes: the claim fails there already.
C7_PredicateNonEmptyAll ==
    (pc = "done" /\ op \in PredicateOps /\ NoZero(Bytes(self))) =>
        ret.val = CASE op = "isalnum" -> NonEmptyAll(Bytes(self), "alnum")
                    [] op = "isalpha" -> NonEmptyAll(Bytes(self), "alpha")
                    [] op = "isdigit" -> NonEmptyAll(Bytes(self), "digit")
                    [] op = "isspace" -> NonEmptyAll(Bytes(self), "space")
                    [] op = "isprintable" -> NonEmptyAll(Bytes(self), "print")
                    [] op = "islower" -> CasedOnly(Bytes(self), "lower")
                    [] op = "isupper" -> CasedOnly(Bytes(self), "upper")

(***************************************************************************)
(* Memory around the value.  Some scans leave the array `value`: mem.after *)
(* holds the bytes that follow the terminator, mem.before those that       *)
(* precede value[0] (the object's header), and an address outside both is  *)
(* not mapped: reading it ends the process.                                *)
(***************************************************************************)
Mapped(o, m, i) == (0 - Len(m.before)) <= i /\ i < Len(o.value) + Len(m.after)

\* *(value + i), for a mapped address
RdM(o, m, i) ==
    IF i < 0 THEN m.before[Len(m.before) + i + 1]
    ELSE IF i < Len(o.value) THEN o.value[i + 1]
    ELSE m.after[i - Len(o.value) + 1]

\* len bytes read from value + i
SpanM(o, m, i, len) == [k \in 1..len |-> RdM(o, m, i + k - 1)]

\* the process dies on a signal
Crash == [exc |-> "SIGSEGV", val |-> NULL]

\* strlen(value + p), reading on through memory: the address of the first zero
\* byte, or the first unmapped address
RECURSIVE str_end(_, _, _)
str_end(o, m, p) ==
    IF ~Mapped(o, m, p) THEN p
    ELSE IF RdM(o, m, p) = 0 THEN p
    ELSE str_end(o, m, p + 1)

(***************************************************************************)
(* split.                                                                  *)
(***************************************************************************)
\* if(maxsplit < 0) maxsplit = PY_SSIZE_T_MAX;
EffectiveMaxsplit(n) == IF n < 0 THEN PY_SSIZE_T_MAX ELSE n

\* cstring_split: sep is None (arg.sepgiven = FALSE) or an object.  Both
\* loops start with an empty list and the cursor on value[0].
SplitCall ==
    /\ op = "split" /\ pc = "call"
    /\ cur' = 0
    /\ acc' = <<>>
    /\ pc' = IF arg.sepgiven THEN "loop" ELSE "ws_loop"
    /\ UNCHANGED <<op, self, arg, ret, mem, heap>>

\* _cstring_split_on_cstring, one iteration of for(;;) per step; leaving the
\* loop appends the remainder.  cur is s, acc is list.  Every item but the
\* last is DECREF'd after PyList_Append.  With a separator that starts with a
\* non-zero byte every iteration advances s, so the list never grows past
\* the length; the guard stops the model where the C loop spins on.
SplitLoop ==
    /\ op = "split" /\ pc = "loop"
    /\ Len(acc) <= cstring_len(self)
    /\ LET sep == arg.sep.value
           e == strstr(self.value, cur, sep)
           s2 == e + strlen(sep, 0)
           field == _cstring_new(Span(self.value, cur, e - cur))
           rest(from) ==
               Incref(_cstring_new(Span(self.value, from,
                                        strlen(self.value, from))))
       IN  IF e = NULL
           THEN /\ acc' = Append(acc, rest(cur))
                /\ ret' = Ok(Append(acc, rest(cur)))
                /\ pc' = "done"
                /\ cur' = cur
           ELSE /\ cur' = s2
                /\ IF Len(acc) + 1 + 1 > EffectiveMaxsplit(arg.maxsplit)
                   THEN /\ acc' = Append(Append(acc, field), rest(s2))
                        /\ ret' = Ok(Append(Append(acc, field), rest(s2)))
                        /\ pc' = "done"
                   ELSE /\ acc' = Append(acc, field)
                        /\ ret' = ret
                        /\ pc' = "loop"
    /\ UNCHANGED <<op, self, arg, mem, heap>>

\* while(*end && !strchr(seps, *end)) ++end;
RECURSIVE field_end(_, _, _, _)
field_end(o, m, seps, p) ==
    IF ~Mapped(o, m, p) THEN p
    ELSE IF RdM(o, m, p) = 0 \/ strchr(seps, RdM(o, m, p)) THEN p
    ELSE field_end(o, m, seps, p + 1)

\* while(*skip && strchr(seps, *skip)) ++skip;
RECURSIVE skip_seps(_, _, _, _)
skip_seps(o, m, seps, p) ==
    IF ~Mapped(o, m, p) THEN p
    ELSE IF RdM(o, m, p) = 0 \/ ~strchr(seps, RdM(o, m, p)) THEN p
    ELSE skip_seps(o, m, seps, p + 1)

\* _cstring_split_on_chars, one iteration of while(*start) per step.  cur is
\* start, acc is list.  skip starts at end + 1 whether or not end stopped on
\* the terminator.
SplitWsLoop ==
    /\ op = "split" /\ pc = "ws_loop"
    /\ LET seps == WHITESPACE_CHARS
           end == field_end(self, mem, seps, cur)
           skip == skip_seps(self, mem, seps, end + 1)
           field == _cstring_new(SpanM(self, mem, cur, end - cur))
           stop == str_end(self, mem, skip)
           rest == _cstring_new(SpanM(self, mem, skip, stop - skip))
       IN  IF ~Mapped(self, mem, cur)
           THEN pc' = "done" /\ ret' = Crash /\ UNCHANGED <<cur, acc>>
           ELSE IF RdM(self, mem, cur) = 0
           THEN pc' = "done" /\ ret' = Ok(acc) /\ UNCHANGED <<cur, acc>>
           ELSE IF ~Mapped(self, mem, end) \/ ~Mapped(self, mem, skip)
           THEN pc' = "done" /\ ret' = Crash /\ UNCHANGED <<cur, acc>>
           ELSE IF Len(acc) + 1 + 1 > EffectiveMaxsplit(arg.maxsplit)
           THEN IF ~Mapped(self, mem, stop)
                THEN /\ pc' = "done" /\ ret' = Crash
                     /\ cur' = skip /\ acc' = Append(acc, field)
                ELSE /\ pc' = "done"
                     /\ ret' = Ok(Append(Append(acc, field), rest))
                     /\ cur' = skip
                     /\ acc' = Append(Append(acc, field), rest)
           ELSE /\ pc' = "ws_loop" /\ ret' = ret
                /\ cur' = skip /\ acc' = Append(acc, field)
    /\ UNCHANGED <<op, self, arg, mem, heap>>

(***************************************************************************)
(* In-place append and join.                                               *)
(***************************************************************************)
\* a NULL object pointer
NoObject == [refcnt |-> 0, hash |-> HASH_UNSET, value |-> <<>>]

_cstring_copy(o) == _cstring_new(Bytes(o))

\* a realloc that resizes the block and leaves the cached hash as it was
_cstring_realloc_keep_hash(o, len) ==
    IF o.refcnt > 1 THEN [refcnt |-> 0, hash |-> HASH_UNSET, value |-> <<>>]
    ELSE [refcnt |-> o.refcnt,
          hash |-> o.hash,
          value |-> [i \in 1..(len + 1) |->
                        IF i <= Len(o.value) THEN o.value[i] ELSE 0]]

\* _cstring_realloc: NULL (bad internal call) for a shared object; else the
\* block resized to len + 1 bytes with its hash reset.  Bytes past the old
\* size are indeterminate (0 here); _concat_in_place writes every one of them.
_cstring_realloc(o, len) ==
    IF o.refcnt > 1 THEN NoObject
    ELSE [refcnt |-> o.refcnt,
          hash |-> HASH_UNSET,
          value |-> [i \in 1..(len + 1) |->
                        IF i <= Len(o.value) THEN o.value[i] ELSE 0]]

\* _concat_in_place(self, other), other being a cstring
_concat_in_place(o, other) ==
    IF o = NoObject THEN _cstring_copy(other)
    ELSE LET origlen == cstring_len(o)
             newlen == origlen + cstring_len(other)
             new == _cstring_realloc(o, newlen)
         IN  IF new = NoObject THEN NoObject
             ELSE [new EXCEPT !.value =
                     [i \in 1..(newlen + 1) |->
                         IF i <= origlen THEN new.value[i]
                         ELSE IF i <= newlen THEN other.value[i - origlen]
                         ELSE 0]]

\* a join loop that appends the separator before the first item too
RECURSIVE join_loop_leading_sep(_, _, _)
join_loop_leading_sep(sep, items, result) ==
    IF items = <<>> THEN result
    ELSE LET r1 == _concat_in_place(result, sep)
             r2 == IF r1 = NoObject THEN NoObject
                   ELSE _concat_in_place(r1, Head(items))
         IN  IF r2 = NoObject THEN NoObject
             ELSE join_loop_leading_sep(sep, Tail(items), r2)

\* the while loop of cstring_join; NoObject after `goto fail`
RECURSIVE join_loop(_, _, _)
join_loop(sep, items, result) ==
    IF items = <<>> THEN result
    ELSE LET r1 == IF result # NoObject THEN _concat_in_place(result, sep)
                   ELSE result
             r2 == IF result # NoObject /\ r1 = NoObject THEN NoObject
                   ELSE _concat_in_place(r1, Head(items))
         IN  IF r2 = NoObject THEN NoObject
             ELSE join_loop(sep, Tail(items), r2)

\* cstring_join: NULL is returned both after a failed append (with the error
\* set by PyErr_BadInternalCall) and, with no error set, for no items; the
\* interpreter reports either as a SystemError.
cstring_join(sep, items) ==
    LET result == join_loop(sep, items, NoObject)
    IN  IF result = NoObject THEN Raise("SystemError") ELSE Ok(result)

Join == op = "join" /\ pc = "call" /\ Return(cstring_join(arg.sep, arg.items))

\* the caller's sep.join(v.split(sep)): the list that split returned, called
\* without maxsplit, becomes the argument of join
ThenJoin ==
    /\ op = "split" /\ pc = "done"
    /\ arg.sepgiven
    /\ arg.maxsplit < 0
    /\ ret.exc = "none"
    /\ op' = "join"
    /\ pc' = "call"
    /\ arg' = [sep |-> arg.sep, items |-> ret.val]
    /\ ret' = NoRet
    /\ UNCHANGED <<self, cur, acc, mem, heap>>

\* NUL, a separator byte (','), two letters
SplitAlphabet == {0, 44, 97}

\* maxsplit is a C int; beyond the number of fields a value can have every
\* limit acts alike
SplitArgsOf(bytes) ==
    [sepgiven : {TRUE},
     sep : {cstring_new(n) : n \in SeqsUpTo(SplitAlphabet, MaxNeedle)},
     maxsplit : (0 - 1)..(Len(bytes) + 1)]

InitSplit ==
    /\ InitCall({"split"})
    /\ \E bytes \in SeqsUpTo(SplitAlphabet, MaxLen) :
          self = cstring_new(bytes) /\ arg \in SplitArgsOf(bytes)

NextSplit == SplitCall \/ SplitLoop \/ ThenJoin \/ Join

SpecSplit == InitSplit /\ [][NextSplit]_vars

\* the fields of an explicit-separator split of v on s with at most m split
\* points (m < 0: no limit)
RECURSIVE FieldsOf(_, _, _)
FieldsOf(v, s, m) ==
    LET hits == {i \in 0..(Len(v) - Len(s)) : Occurs(v, s, i)}
    IN  IF m = 0 \/ hits = {} THEN <<v>>
        ELSE <<SubSeq(v, 1, Min(hits))>>
             \o FieldsOf(SubSeq(v, Min(hits) + Len(s) + 1, Len(v)), s, m - 1)

BytesOfAll(items) == [i \in 1..Len(items) |-> Bytes(items[i])]

SplitDone == op = "split" /\ pc = "done" /\ arg.sepgiven

SepZeroFree == NoZero(Bytes(self)) /\ NoZero(Bytes(arg.sep))

\* C8: in explicit-separator split with a non-empty separator, maxsplit m >= 0
\* limits the split points: the result has min(m, occurrences) + 1 fields, the
\* last being the unsplit remainder, so m = 0 returns [v]; a negative m means
\* no limit.  Stated on values and separators free of zero bytes: the claim
\* fails there already.
C8_MaxsplitLimitsSplitPoints ==
    (SplitDone /\ SepZeroFree /\ Len(Bytes(arg.sep)) > 0) =>
        LET v == Bytes(self)
            s == Bytes(arg.sep)
            n == CountInWindow(v, s, 0, Len(v))
            m == arg.maxsplit
        IN  /\ Len(ret.val) = (IF m < 0 \/ n < m THEN n ELSE m) + 1
            /\ BytesOfAll(ret.val) = FieldsOf(v, s, m)

RoundTrip ==
    (op = "join" /\ pc = "done") =>
        ret.exc = "none" /\ Bytes(ret.val) = Bytes(self)

\* C9 as stated: for every value without embedded zero bytes and every
\* non-empty separator, join(s, split(v, s)) has the same bytes as v.
C9_SplitJoinRoundTrip_EverySeparator ==
    (NoZero(Bytes(self)) /\ op = "join" /\ Len(Bytes(arg.sep)) > 0) => RoundTrip

\* C9, amended: for every value and every non-empty separator, both without
\* embedded zero bytes, join(s, split(v, s)) has the same bytes as v.
C9_SplitJoinRoundTrip ==
    (NoZero(Bytes(self)) /\ op = "join" /\ Len(Bytes(arg.sep)) > 0
        /\ NoZero(Bytes(arg.sep))) => RoundTrip

\* C9 witness: a value that starts with the separator and holds two adjacent
\* occurrences of it went through split and join: the list has empty fields.
C9_Witness ==
    /\ op = "join" /\ pc = "done"
    /\ Bytes(arg.sep) = <<44>>
    /\ Bytes(self) = <<44, 44, 97>>
    /\ BytesOfAll(arg.items) = <<<<>>, <<>>, <<97>>>>
    /\ ret.exc = "none"

(***************************************************************************)
(* Default-mode split: inputs and the claim.                               *)
(***************************************************************************)
\* NUL, space, a letter
WsAlphabet == {0, 32, 97}

\* The memory around value[] of an object made by tp_alloc.  Before value[0]
\* lies the hash field: bytes 0xFF while it holds the sentinel, zero bytes in
\* a block CSTRING_ALLOC handed out and nobody wrote to.  tp_alloc zeroes one
\* item more than asked, so the terminator is followed by a zero byte; what
\* comes after that belongs to the allocator.  Addresses further away than
\* MaxSlack are not modelled.
HashFieldBytes(o) ==
    IF o.hash = HASH_UNSET THEN {[i \in 1..MaxSlack |-> 255]}
    ELSE IF o.hash = 0 THEN {[i \in 1..MaxSlack |-> 0]}
    ELSE [1..MaxSlack -> {0, 255}]

MemoriesOf(o) ==
    [before : HashFieldBytes(o),
     after : {<<0>> \o s : s \in SeqsUpTo({0, 97}, MaxSlack)}]

DefaultSplitArgsOf(bytes) ==
    [sepgiven : {FALSE}, sep : {NoObject}, maxsplit : (0 - 1)..(Len(bytes) + 1)]

InitSplitWs ==
    /\ op = "split"
    /\ pc = "call"
    /\ ret = NoRet
    /\ cur = 0
    /\ acc = 0
    /\ \E bytes \in SeqsUpTo(WsAlphabet, MaxLen) :
          self = cstring_new(bytes) /\ arg \in DefaultSplitArgsOf(bytes)
    /\ mem \in MemoriesOf(self)
    /\ heap = NoHeap

NextSplitWs == SplitCall \/ SplitWsLoop

SpecSplitWs == InitSplitWs /\ [][NextSplitWs]_vars

\* the maximal runs of non-whitespace bytes of v, in order
RECURSIVE RunsOf(_)
RunsOf(v) ==
    IF v = <<>> THEN <<>>
    ELSE IF isspace(Head(v)) THEN RunsOf(Tail(v))
    ELSE LET stops == {i \in 1..Len(v) : isspace(v[i])}
             n == IF stops = {} THEN Len(v) ELSE Min(stops) - 1
         IN  <<SubSeq(v, 1, n)>> \o RunsOf(SubSeq(v, n + 1, Len(v)))

\* C2: default-mode split (no separator, maxsplit unlimited) of a value
\* without embedded zero bytes returns exactly the maximal runs of
\* non-whitespace bytes, in order: no empty field, nothing for leading or
\* trailing whitespace.
C2_DefaultSplitRuns ==
    (op = "split" /\ pc = "done" /\ ~arg.sepgiven /\ arg.maxsplit < 0
        /\ NoZero(Bytes(self))) =>
      /\ ret.exc = "none"
      /\ BytesOfAll(ret.val) = RunsOf(Bytes(self))

(***************************************************************************)
(* concat, repeat, slicing, lower, upper, swapcase, and hash.              *)
(***************************************************************************)
\* the object after cstring_hash: the cache is filled only while it holds
\* the sentinel
hash_cached(o) ==
    IF o.hash = HASH_UNSET THEN [o EXCEPT !.hash = _Py_HashBytes(o.value)]
    ELSE o

\* cstring_hash: the number returned
cstring_hash(o) == hash_cached(o).hash

\* cstring_concat: the two memcpy's into a block from CSTRING_ALLOC
cstring_concat(left, right) ==
    [CSTRING_ALLOC(cstring_len(left) + cstring_len(right) + 1)
        EXCEPT !.value = Bytes(left) \o right.value]

\* the bytes the for loop of cstring_repeat leaves in the new block
RECURSIVE repeat_fill(_, _)
repeat_fill(b, count) ==
    IF count <= 0 THEN <<>> ELSE b \o repeat_fill(b, count - 1)

cstring_repeat(o, count) ==
    IF count <= 0 THEN cstring_new_empty
    ELSE [CSTRING_ALLOC(cstring_len(o) * count + 1)
            EXCEPT !.value = repeat_fill(Bytes(o), count) \o <<0>>]

\* PySlice_AdjustIndices(length, &start, &stop, step), step # 0
PySlice_AdjustIndices(length, start, stop, step) ==
    LET clip(i) ==
            IF i < 0
            THEN IF i + length < 0
                 THEN (IF step < 0 THEN 0 - 1 ELSE 0)
                 ELSE i + length
            ELSE IF i >= length
                 THEN (IF step < 0 THEN length - 1 ELSE length)
                 ELSE i
        b == clip(start)
        e == clip(stop)
    IN  [start |-> b,
         stop |-> e,
         slicelen |-> IF step < 0
                      THEN IF e < b THEN ((b - e - 1) \div (0 - step)) + 1
                           ELSE 0
                      ELSE IF b < e THEN ((e - b - 1) \div step) + 1
                           ELSE 0]

_cstring_subscript_slice(o, start, stop, step) ==
    LET adj == PySlice_AdjustIndices(cstring_len(o), start, stop, step)
    IN  [CSTRING_ALLOC(adj.slicelen + 1) EXCEPT !.value =
            [i \in 1..(adj.slicelen + 1) |->
                IF i <= adj.slicelen
                THEN Rd(o.value, adj.start + (i - 1) * step)
                ELSE 0]]

\* while((*d++ = f(*s++)) != '\0'): the copy stops after the first zero byte
\* of the source; what follows keeps the zeros of CSTRING_ALLOC
case_copy(o, cls) ==
    LET n == strlen(o.value, 0)
        f(c) == CASE cls = "lower" -> tolower(c)
                  [] cls = "upper" -> toupper(c)
                  [] OTHER -> IF islower(c) THEN toupper(c)
                              ELSE IF isupper(c) THEN tolower(c)
                              ELSE c
    IN  [CSTRING_ALLOC(Len(o.value)) EXCEPT !.value =
            [i \in 1..Len(o.value) |-> IF i <= n THEN f(o.value[i]) ELSE 0]]

cstring_lower(o) == case_copy(o, "lower")

cstring_upper(o) == case_copy(o, "upper")

cstring_swapcase(o) == case_copy(o, "swapcase")

Concat == op = "concat" /\ pc = "call" /\ Return(Ok(cstring_concat(self, arg.other)))

Repeat == op = "repeat" /\ pc = "call" /\ Return(Ok(cstring_repeat(self, arg.count)))

Slice ==
    /\ op = "slice" /\ pc = "call"
    /\ Return(Ok(_cstring_subscript_slice(self, arg.start, arg.stop, arg.step)))

Lower == op = "lower" /\ pc = "call" /\ Return(Ok(cstring_lower(self)))

Upper == op = "upper" /\ pc = "call" /\ Return(Ok(cstring_upper(self)))

Swapcase == op = "swapcase" /\ pc = "call" /\ Return(Ok(cstring_swapcase(self)))

\* the objects a finished call handed to its caller
Produced ==
    IF op \in {"split", "partition", "rpartition"} THEN Range(ret.val)
    ELSE {ret.val}

\* the caller takes one of the objects a call produced and constructs a
\* second value from the same bytes: hash(x) and hash(cstring(bytes(x)))
ThenHash ==
    /\ op # "hash" /\ pc = "done" /\ ret.exc = "none"
    /\ \E o \in Produced :
          /\ self' = o
          /\ arg' = [other |-> _cstring_new(Bytes(o)), via |-> op]
    /\ op' = "hash"
    /\ pc' = "call"
    /\ ret' = Ok(<<>>)
    /\ UNCHANGED <<cur, acc, mem, heap>>

\* hash(self), then the same on the other value: ret collects the numbers
Hash ==
    /\ op = "hash" /\ pc \in {"call", "again"}
    /\ ret' = Ok(Append(ret.val, cstring_hash(self)))
    /\ self' = arg.other
    /\ arg' = [arg EXCEPT !.other = hash_cached(self)]
    /\ pc' = (IF pc = "call" THEN "again" ELSE "done")
    /\ UNCHANGED <<op, cur, acc, mem, heap>>

\* NUL, an upper-case and a lower-case letter; the letter is the separator
\* of the split, partition and join calls
HashAlphabet == {0, 65, 97}

HashArgsOf(o, bytes) ==
    CASE o = "concat" ->
            [other : {cstring_new(b) : b \in SeqsUpTo(HashAlphabet, MaxNeedle)}]
      [] o = "repeat" -> [count : (0 - 1)..2]
      [] o = "slice" ->
            [start : (0 - (Len(bytes) + 1))..(Len(bytes) + 1),
             stop : (0 - (Len(bytes) + 1))..(Len(bytes) + 1),
             step : {0 - 1, 1, 2}]
      [] o = "split" ->
            [sepgiven : {TRUE}, sep : {cstring_new(<<97>>)},
             maxsplit : (0 - 1)..1]
      [] o \in {"partition", "rpartition"} -> [pat : {cstring_new(<<97>>)}]
      [] o = "join" ->
            [sep : {cstring_new(<<97>>)},
             items : {<<self>>, <<_cstring_new(<<65>>), self>>}]
      [] OTHER -> {NoArg}

InitHash ==
    /\ InitCall({"concat", "repeat", "slice", "lower", "upper", "swapcase",
                 "split", "partition", "rpartition", "join"})
    /\ \E bytes \in SeqsUpTo(HashAlphabet, MaxLen) :
          self = cstring_new(bytes) /\ arg \in HashArgsOf(op, bytes)

NextHash ==
    \/ Concat \/ Repeat \/ Slice \/ Lower \/ Upper \/ Swapcase
    \/ SplitCall \/ SplitLoop \/ Partition \/ RPartition \/ Join
    \/ ThenHash \/ Hash

SpecHash == InitHash /\ [][NextHash]_vars

\* a cached hash that is not the sentinel is the hash of the bytes
CacheIsHashOfBytes(o) == o.hash # HASH_UNSET => o.hash = _Py_HashBytes(o.value)

\* C1: equal values hash equal regardless of how they were produced: a value
\* a call produced and a value constructed from the same bytes hash to the
\* same number, and the hash either caches is the hash of its bytes.
C1_EqualValuesHashEqual ==
    (op = "hash" /\ pc = "done") =>
        /\ ret.val[1] = ret.val[2]
        /\ CacheIsHashOfBytes(self)
        /\ CacheIsHashOfBytes(arg.other)

(***************************************************************************)
(* strip, lstrip, rstrip.                                                  *)
(***************************************************************************)
\* _strip_chars_from_args: the C string to strip with, or NULL after the
\* type error for an argument that is neither None nor a str.  A str comes
\* as its UTF-8 buffer, which ends at its first zero byte for strchr.
_strip_chars_from_args(a) ==
    CASE a.kind = "none" -> [null |-> FALSE, chars |-> WHITESPACE_CHARS]
      [] a.kind = "str" ->
            [null |-> FALSE,
             chars |-> SubSeq(a.chars, 1, strlen(a.chars \o <<0>>, 0))]
      [] OTHER -> [null |-> TRUE, chars |-> <<>>]

\* while(strchr(chars, *start)) ++start;  The address at which the scan
\* stops, or the first unmapped address.
RECURSIVE scan_right(_, _, _, _)
scan_right(o, m, chars, p) ==
    IF ~Mapped(o, m, p) THEN p
    ELSE IF ~strchr(chars, RdM(o, m, p)) THEN p
    ELSE scan_right(o, m, chars, p + 1)

\* while(strchr(chars, *end)) --end;
RECURSIVE scan_left(_, _, _, _)
scan_left(o, m, chars, p) ==
    IF ~Mapped(o, m, p) THEN p
    ELSE IF ~strchr(chars, RdM(o, m, p)) THEN p
    ELSE scan_left(o, m, chars, p - 1)

\* _cstring_new(type, start, newsize) on the cursors the scans left: a scan
\* that ran into unmapped memory, or a negative newsize (a huge size_t for
\* memcpy), ends the process.
strip_result(o, m, start, end) ==
    IF ~Mapped(o, m, start) \/ ~Mapped(o, m, end) \/ end - start + 1 < 0
    THEN Crash
    ELSE Ok(_cstring_new(SpanM(o, m, start, end - start + 1)))

\* the cursors of the three methods; &CSTRING_LAST_BYTE(self) - 1 is the last
\* byte before the terminator.  strip scans from the right only when the
\* left scan came back.
strip_start(o, m, chars) == scan_right(o, m, chars, 0)

strip_end(o, m, chars) == scan_left(o, m, chars, Len(o.value) - 2)

\* chars is not checked for NULL: strchr(NULL, c) ends the process
StripCall(side) ==
    /\ op = side /\ pc \in {"call", "again"}
    /\ LET c == _strip_chars_from_args(arg)
           start == IF side = "rstrip" THEN 0
                    ELSE strip_start(self, mem, c.chars)
           end == IF side = "lstrip" THEN Len(self.value) - 2
                  ELSE IF Mapped(self, mem, start)
                  THEN strip_end(self, mem, c.chars)
                  ELSE Len(self.value) - 2
       IN  /\ cur' = (IF c.null THEN 0 ELSE start)
           /\ acc' = (IF c.null THEN 0 ELSE end)
           /\ ret' = (IF c.null THEN Crash
                      ELSE strip_result(self, mem, start, end))
    /\ pc' = (IF pc = "call" THEN "done" ELSE "done_again")
    /\ UNCHANGED <<op, self, arg, mem, heap>>

Strip == StripCall("strip")
LStrip == StripCall("lstrip")
RStrip == StripCall("rstrip")

\* the caller's v.strip(chars).strip(chars): the object the first call
\* returned is the receiver of the second; it lies somewhere else in memory
Again ==
    /\ op \in {"strip", "lstrip", "rstrip"} /\ pc = "done"
    /\ ret.exc = "none"
    /\ self' = ret.val
    /\ mem' \in MemoriesOf(ret.val)
    /\ pc' = "again"
    /\ ret' = NoRet
    /\ UNCHANGED <<op, arg, cur, acc, heap>>

\* NUL, space, two letters
StripAlphabet == {0, 32, 97, 98}

StripArgs ==
    [kind : {"none"}, chars : {<<>>}]
    \cup [kind : {"str"}, chars : SeqsUpTo({32, 97}, MaxNeedle)]
    \cup [kind : {"bytes"}, chars : {<<97>>}]

InitStrip ==
    /\ op \in {"strip", "lstrip", "rstrip"}
    /\ pc = "call"
    /\ ret = NoRet
    /\ cur = 0
    /\ acc = 0
    /\ \E bytes \in SeqsUpTo(StripAlphabet, MaxLen) :
          self \in {cstring_new(bytes), cstring_lower(cstring_new(bytes))}
    /\ mem \in MemoriesOf(self)
    /\ heap = NoHeap
    /\ arg \in StripArgs

NextStrip == Strip \/ LStrip \/ RStrip \/ Again

SpecStrip == InitStrip /\ [][NextStrip]_vars

\* the strip set of the call
StripSet == IF arg.kind = "none" THEN Range(WHITESPACE_CHARS) ELSE Range(arg.chars)

\* C10: strip is idempotent for every value and every strip character set
\* (the default or a caller-supplied one): strip(strip(v)) equals strip(v);
\* the strip of the empty value and of a value made only of strip-set bytes is
\* the empty value.  Stated on values free of zero bytes: the claim fails
\* there already.
C10_StripIdempotent ==
    (op = "strip" /\ arg.kind \in {"none", "str"} /\ NoZero(Bytes(self))) =>
      /\ (pc = "done" /\ Range(Bytes(self)) \subseteq StripSet) =>
            ret = Ok(_cstring_new(<<>>))
      /\ (pc = "done_again") =>
            ret.exc = "none" /\ Bytes(ret.val) = Bytes(self)

(***************************************************************************)
(* _concat_in_place on objects with an address.                            *)
(***************************************************************************)
Addrs == 1..MaxObjects

Live(h) == DOMAIN h

\* addresses the allocator can hand out
FreeAddrs(h) == Addrs \ Live(h)

\* the heap with the object o at address a
Store(h, a, o) == [x \in Live(h) \cup {a} |-> IF x = a THEN o ELSE h[x]]

\* the heap after the block at address a is gone
Release(h, a) == [x \in Live(h) \ {a} |-> h[x]]

\* an append that, for self = NULL, returns the other object itself with one
\* more reference instead of a copy of it
concat_in_place_at_share(h, target, other, to) ==
    IF target = NULL
    THEN [heap |-> [h EXCEPT ![other].refcnt = @ + 1], result |-> other]
    ELSE LET new == _concat_in_place(h[target], h[other])
         IN  IF new = NoObject THEN [heap |-> h, result |-> NULL]
             ELSE [heap |-> [x \in ((DOMAIN h) \ {target}) \cup {to} |->
                               IF x = to THEN new ELSE h[x]],
                   result |-> to]

\* _concat_in_place(self, other) on addresses; `to` is where the block is
\* afterwards: PyObject_Realloc may move it, and tp_alloc (for self = NULL)
\* returns a block nobody else has.  NULL for a shared self.
concat_in_place_at(h, target, other, to) ==
    LET new == IF target = NULL THEN _concat_in_place(NoObject, h[other])
               ELSE _concat_in_place(h[target], h[other])
    IN  IF new = NoObject THEN [heap |-> h, result |-> NULL]
        ELSE IF target = NULL THEN [heap |-> Store(h, to, new), result |-> to]
        ELSE [heap |-> Store(Release(h, target), to, new), result |-> to]

\* where the result of _concat_in_place(self, other) can lie
Destinations(h, target) ==
    IF target = NULL THEN FreeAddrs(h) ELSE FreeAddrs(h) \cup {target}

ConcatInPlace ==
    /\ op = "_concat_in_place" /\ pc = "call"
    /\ \E to \in Destinations(heap, arg.self) :
          LET r == concat_in_place_at(heap, arg.self, arg.other, to)
          IN  /\ heap' = r.heap
              /\ ret' = IF r.result = NULL THEN Raise("SystemError")
                        ELSE Ok(r.result)
    /\ pc' = "done"
    /\ UNCHANGED <<op, self, arg, cur, acc, mem>>

\* NUL and a letter
AppendAlphabet == {0, 97}

\* an object as a caller can hold it: one or more references, the hash not
\* yet computed, left at 0 by CSTRING_ALLOC, or cached
ObjectsOf(bytes) ==
    [refcnt : 1..3,
     hash : {HASH_UNSET, 0, _Py_HashBytes(bytes \o <<0>>)},
     value : {bytes \o <<0>>}]

\* self is the target as it is before the call (NoObject for NULL), at
\* address 1; the addition is another object, at address 2
InitAppend ==
    /\ op = "_concat_in_place"
    /\ pc = "call"
    /\ ret = NoRet
    /\ cur = 0
    /\ acc = 0
    /\ mem = NoMem
    /\ \E tb \in SeqsUpTo(AppendAlphabet, MaxLen),
          ab \in SeqsUpTo(AppendAlphabet, MaxNeedle) :
          \E t \in ObjectsOf(tb) \cup {NoObject}, a \in ObjectsOf(ab) :
              /\ self = t
              /\ arg = [self |-> IF t = NoObject THEN NULL ELSE 1,
                        other |-> 2, addition |-> a]
              /\ heap = IF t = NoObject THEN Store(NoHeap, 2, a)
                        ELSE Store(Store(NoHeap, 1, t), 2, a)

NextAppend == ConcatInPlace

SpecAppend == InitAppend /\ [][NextAppend]_vars

\* C11: _concat_in_place mutates the target only when it has exactly one
\* reference.  With more than one it fails with the bad-internal-call error
\* and the target keeps its length, bytes and cached hash; with exactly one
\* the result holds the target's old bytes, then the addition's bytes, then
\* the terminator, its cached hash is the sentinel, and the addition is as it
\* was.
C11_AppendInPlace ==
    (op = "_concat_in_place" /\ pc = "done" /\ arg.self # NULL) =>
        /\ heap[arg.other] = arg.addition
        /\ IF self.refcnt > 1
           THEN /\ ret = Raise("SystemError")
                /\ arg.self \in Live(heap)
                /\ heap[arg.self] = self
           ELSE /\ ret.exc = "none"
                /\ ret.val \in Live(heap)
                /\ heap[ret.val].value =
                       Bytes(self) \o Bytes(arg.addition) \o <<0>>
                /\ heap[ret.val].hash = HASH_UNSET
                /\ heap[ret.val].refcnt = 1

\* a sole-owned target with a cached hash got a non-empty addition and moved
C11_Witness ==
    /\ op = "_concat_in_place" /\ pc = "done"
    /\ arg.self = 1
    /\ self.refcnt = 1
    /\ self.hash > 0
    /\ Len(Bytes(self)) > 0
    /\ Len(Bytes(arg.addition)) > 0
    /\ ret.exc = "none"
    /\ ret.val # arg.self
    /\ heap[ret.val].hash = HASH_UNSET

(***************************************************************************)
(* cstring_join, one step per append, on objects with an address.          *)
(***************************************************************************)
IncrefAt(h, a) == [h EXCEPT ![a].refcnt = @ + 1]

DecrefAt(h, a) == [h EXCEPT ![a].refcnt = @ - 1]

\* Py_XDECREF(result) of the fail path: the accumulator, which has one
\* reference, is released
XDecrefResult(h, a) == IF a = NULL THEN h ELSE Release(h, a)

\* PyObject_GetIter(arg); result = NULL.  cur counts the items taken from the
\* iterator, acc is result.
JoinCall ==
    /\ op = "join" /\ pc = "call"
    /\ cur' = 0
    /\ acc' = NULL
    /\ pc' = "next"
    /\ UNCHANGED <<op, self, arg, ret, mem, heap>>

\* item = PyIter_Next(iter): a new reference to the next item, or the end of
\* the loop and `return result` (NULL with no error set, which the
\* interpreter turns into a SystemError, when there was no item)
JoinNext ==
    /\ op = "join" /\ pc = "next"
    /\ IF cur = Len(arg.items)
       THEN /\ pc' = "done"
            /\ ret' = (IF acc = NULL THEN Raise("SystemError") ELSE Ok(acc))
            /\ UNCHANGED <<cur, heap>>
       ELSE /\ heap' = IncrefAt(heap, arg.items[cur + 1])
            /\ cur' = cur + 1
            /\ pc' = (IF acc # NULL THEN "sep" ELSE "item")
            /\ ret' = ret
    /\ UNCHANGED <<op, self, arg, acc, mem>>

\* if(result) { next = _concat_in_place(result, self); ... }
JoinAppendSep ==
    /\ op = "join" /\ pc = "sep"
    /\ \E to \in Destinations(heap, acc) :
          LET r == concat_in_place_at(heap, acc, arg.sep, to)
          IN  IF r.result = NULL
              THEN /\ heap' = XDecrefResult(DecrefAt(heap, arg.items[cur]), acc)
                   /\ acc' = NULL
                   /\ ret' = Raise("SystemError")
                   /\ pc' = "done"
              ELSE /\ heap' = r.heap
                   /\ acc' = r.result
                   /\ ret' = ret
                   /\ pc' = "item"
    /\ UNCHANGED <<op, self, arg, cur, mem>>

\* next = _concat_in_place(result, item); Py_DECREF(item); result = next;
JoinAppendItem ==
    /\ op = "join" /\ pc = "item"
    /\ \E to \in Destinations(heap, acc) :
          LET r == concat_in_place_at(heap, acc, arg.items[cur], to)
          IN  IF r.result = NULL
              THEN /\ heap' = XDecrefResult(DecrefAt(heap, arg.items[cur]), acc)
                   /\ acc' = NULL
                   /\ ret' = Raise("SystemError")
                   /\ pc' = "done"
              ELSE /\ heap' = DecrefAt(r.heap, arg.items[cur])
                   /\ acc' = r.result
                   /\ ret' = ret
                   /\ pc' = "next"
    /\ UNCHANGED <<op, self, arg, cur, mem>>

\* letters and NUL; 44 is the comma
JoinAlphabet == {0, 44, 97}

\* longest sequence joined
MaxItems == 3

\* address of the separator, of the empty singleton, of one more element
SepAddr == 1
EmptyAddr == 2
ElemAddr == 3

\* how often address a occurs in items
Occurrences(items, a) == Cardinality({i \in 1..Len(items) : items[i] = a})

\* The caller holds the separator and the element, cstring_EMPTY holds the
\* singleton, and the sequence holds one reference per occurrence.  The
\* sequence may repeat an object and may contain the separator itself and the
\* singleton.  arg.objects keeps the objects as they are before the call.
InitJoin ==
    /\ op = "join"
    /\ pc = "call"
    /\ ret = NoRet
    /\ cur = 0
    /\ acc = 0
    /\ mem = NoMem
    /\ \E sb \in SeqsUpTo(JoinAlphabet, 1), eb \in SeqsUpTo(JoinAlphabet, MaxNeedle),
          items \in SeqsUpTo({SepAddr, EmptyAddr, ElemAddr}, MaxItems) :
          LET held(o, a) == [o EXCEPT !.refcnt = 1 + Occurrences(items, a)]
              h == Store(Store(Store(NoHeap,
                      SepAddr, held(_cstring_new(sb), SepAddr)),
                      EmptyAddr, held(_cstring_new(<<>>), EmptyAddr)),
                      ElemAddr, held(_cstring_new(eb), ElemAddr))
          IN  /\ heap = h
              /\ self = h[SepAddr]
              /\ arg = [sep |-> SepAddr, items |-> items, objects |-> h]

NextJoin == JoinCall \/ JoinNext \/ JoinAppendSep \/ JoinAppendItem

SpecJoin == InitJoin /\ [][NextJoin]_vars

\* C12: in every execution of join over a sequence of cstring objects
\* (repeating one object, containing the separator itself or the empty
\* singleton), each in-place append has as its target an accumulator with
\* exactly one reference that is none of the separator, the elements and the
\* singleton; join never fails with the bad-internal-call error (a
\* SystemError comes only from the empty sequence, where no append ran); the
\* bytes of the separator, the elements and the singleton never change.
C12_JoinOwnsAccumulator ==
    (op = "join" /\ pc # "call") =>
        /\ (pc \in {"sep", "item"} /\ acc # NULL) =>
              /\ acc \in Live(heap)
              /\ heap[acc].refcnt = 1
              /\ acc \notin DOMAIN arg.objects
        /\ (ret = Raise("SystemError")) => arg.items = <<>>
        /\ \A a \in DOMAIN arg.objects :
              a \in Live(heap) /\ heap[a].value = arg.objects[a].value

\* a join of three items, the separator itself and the singleton among
\* them, returned a new object after the accumulator moved
C12_Witness ==
    /\ op = "join" /\ pc = "done"
    /\ Len(arg.items) = MaxItems
    /\ {SepAddr, EmptyAddr} \subseteq Range(arg.items)
    /\ Len(Bytes(self)) > 0
    /\ ret.exc = "none"
    /\ ret.val = MaxObjects
    /\ Len(heap[ret.val].value) > 2

(***************************************************************************)
(* The loops of count and of the explicit-separator split.                 *)
(***************************************************************************)
InitLoops == InitCount \/ InitSplit

NextLoops == CountCall \/ CountLoop \/ SplitCall \/ SplitLoop

SpecLoops == InitLoops /\ [][NextLoops]_vars

\* the loops run on their own: a call that can take a step takes it
SpecLoopsFair == SpecLoops /\ WF_vars(NextLoops)

\* C13: count and explicit-separator split terminate for every value and
\* every pattern, the empty pattern included: each loop iteration strictly
\* advances the search cursor (so the iterations are bounded by the length).
\* Stated on values free of zero bytes: the claim fails there already.
C13_LoopsAdvance ==
    [][(op \in {"count", "split"} /\ NoZero(Bytes(self))
            /\ pc = "loop" /\ pc' = "loop")
          => cur' > cur]_vars

(***************************************************************************)
(* The scan cursors of strip, lstrip, rstrip and the default split.        *)
(***************************************************************************)
InitScan == InitStrip \/ InitSplitWs

NextScan == NextStrip \/ NextSplitWs

SpecScan == InitScan /\ [][NextScan]_vars

\* offsets 0 through length, the terminator
InBuffer(o, p) == 0 <= p /\ p <= cstring_len(o)

\* C14: every scan cursor of strip, lstrip, rstrip and default-mode split
\* stays inside the value's own buffer, offsets 0 through length: the left
\* scan (cur) stops at the terminator, the right scan (acc) never moves before
\* offset 0, and the cursor of split (cur) never advances past the
\* terminator.  Stated on values free of zero bytes: the claim fails there
\* already.
C14_CursorsInBuffer ==
    NoZero(Bytes(self)) =>
        /\ (op \in {"strip", "lstrip"} /\ pc \in {"done", "done_again"}
                /\ arg.kind # "bytes") => InBuffer(self, cur)
        /\ (op \in {"strip", "rstrip"} /\ pc \in {"done", "done_again"}
                /\ arg.kind # "bytes") => InBuffer(self, acc)
        /\ (op = "split" /\ pc \in {"ws_loop", "done"}) => InBuffer(self, cur)

(***************************************************************************)
(* Two threads in _concat_in_place on one target.                          *)
(*                                                                         *)
(* The code takes no lock.  Each thread runs the statements of             *)
(* _concat_in_place and _cstring_realloc in order: it takes the target and *)
(* reads its length, tests Py_REFCNT(self) > 1, calls PyObject_Realloc     *)
(* (storing the new size and hash), then copies the addition, writes the   *)
(* terminator and hands the result back.  arg.serialized tells whether a   *)
(* caller's lock makes the whole sequence one step.  acc is what the       *)
(* threads share: the address the target is known at, the addresses        *)
(* PyObject_Realloc has freed (the heap keeps their last contents), and    *)
(* the number of reallocations so far.  cur holds each thread's locals.    *)
(* Using a freed block is undefined: the thread either dies on a signal    *)
(* or goes on with what the block last held.                               *)
(***************************************************************************)
Threads == {1, 2}

NoLocals == [self |-> NULL, origlen |-> 0, newlen |-> 0, seen |-> 0, new |-> NULL]

\* self, origlen and newlen as _concat_in_place computes them on entry
race_call(h, sh, other) ==
    [self |-> sh.target,
     origlen |-> cstring_len(h[sh.target]),
     newlen |-> cstring_len(h[sh.target]) + cstring_len(h[other]),
     seen |-> sh.gen,
     new |-> NULL]

\* PyObject_Realloc(self, ...), Py_SET_SIZE, hash = -1: the block resized to
\* newlen + 1 bytes at address `to`; a block that moved leaves its old
\* address freed
race_realloc(h, sh, loc, to) ==
    LET old == h[loc.self]
        new == [refcnt |-> old.refcnt,
                hash |-> HASH_UNSET,
                value |-> [i \in 1..(loc.newlen + 1) |->
                             IF i <= Len(old.value) THEN old.value[i] ELSE 0]]
    IN  [heap |-> Store(h, to, new),
         acc |-> [sh EXCEPT !.freed = IF to = loc.self THEN @ ELSE @ \cup {loc.self},
                            !.gen = @ + 1],
         loc |-> [loc EXCEPT !.new = to]]

\* a copy that writes the addition at the start of the block
race_copy_at_start(h, sh, loc, other) ==
    LET blk == h[loc.new]
        n == cstring_len(h[other])
        size == Len(blk.value)
    IN  [heap |-> [h EXCEPT ![loc.new].value =
                     [i \in 1..size |->
                         IF i = size THEN 0
                         ELSE IF i <= n THEN h[other].value[i]
                         ELSE blk.value[i]]],
         acc |-> [sh EXCEPT !.target = loc.new]]

\* memcpy(CSTRING_VALUE_AT(new, origlen), CSTRING_VALUE(other), len(other));
\* CSTRING_LAST_BYTE(new) = '\0'; return new.  The block has the size it has
\* now; bytes that would land behind it are not modelled.
race_copy(h, sh, loc, other) ==
    LET blk == h[loc.new]
        n == cstring_len(h[other])
        size == Len(blk.value)
    IN  [heap |-> [h EXCEPT ![loc.new].value =
                     [i \in 1..size |->
                         IF i = size THEN 0
                         ELSE IF loc.origlen < i /\ i <= loc.origlen + n
                         THEN h[other].value[i - loc.origlen]
                         ELSE blk.value[i]]],
         acc |-> [sh EXCEPT !.target = loc.new]]

\* no thread has died
Running == \A t \in Threads : ret[t] # Crash

\* the thread dies on a signal
Dies(t) ==
    /\ ret' = [ret EXCEPT ![t] = Crash]
    /\ pc' = [pc EXCEPT ![t] = "done"]
    /\ UNCHANGED <<op, self, arg, cur, acc, mem, heap>>

ThreadCall(t) ==
    /\ op = "_concat_in_place" /\ ~arg.serialized /\ Running
    /\ pc[t] = "call"
    /\ \/ acc.target \in acc.freed /\ Dies(t)
       \/ /\ cur' = [cur EXCEPT ![t] = race_call(heap, acc, arg.other[t])]
          /\ pc' = [pc EXCEPT ![t] = "check"]
          /\ UNCHANGED <<op, self, arg, ret, acc, mem, heap>>

\* if(Py_REFCNT(self) > 1) return PyErr_BadInternalCall(), NULL;
ThreadCheck(t) ==
    /\ op = "_concat_in_place" /\ ~arg.serialized /\ Running
    /\ pc[t] = "check"
    /\ \/ cur[t].self \in acc.freed /\ Dies(t)
       \/ /\ IF heap[cur[t].self].refcnt > 1
             THEN /\ pc' = [pc EXCEPT ![t] = "done"]
                  /\ ret' = [ret EXCEPT ![t] = Raise("SystemError")]
             ELSE /\ pc' = [pc EXCEPT ![t] = "realloc"]
                  /\ ret' = ret
          /\ UNCHANGED <<op, self, arg, cur, acc, mem, heap>>

ThreadRealloc(t) ==
    /\ op = "_concat_in_place" /\ ~arg.serialized /\ Running
    /\ pc[t] = "realloc"
    /\ \/ cur[t].self \in acc.freed /\ Dies(t)
       \/ \E to \in (Addrs \ DOMAIN heap)
                       \cup (IF cur[t].self \in acc.freed THEN {}
                             ELSE {cur[t].self}) :
             LET r == race_realloc(heap, acc, cur[t], to)
             IN  /\ heap' = r.heap
                 /\ acc' = r.acc
                 /\ cur' = [cur EXCEPT ![t] = r.loc]
                 /\ pc' = [pc EXCEPT ![t] = "copy"]
                 /\ UNCHANGED <<op, self, arg, ret, mem>>

ThreadCopy(t) ==
    /\ op = "_concat_in_place" /\ ~arg.serialized /\ Running
    /\ pc[t] = "copy"
    /\ \/ cur[t].new \in acc.freed /\ Dies(t)
       \/ LET r == race_copy(heap, acc, cur[t], arg.other[t])
          IN  /\ heap' = r.heap
              /\ acc' = r.acc
              /\ pc' = [pc EXCEPT ![t] = "done"]
              /\ ret' = [ret EXCEPT ![t] = Ok(cur[t].new)]
              /\ UNCHANGED <<op, self, arg, cur, mem>>

\* the whole sequence under the caller's lock
ThreadSerial(t) ==
    /\ op = "_concat_in_place" /\ arg.serialized /\ Running
    /\ pc[t] = "call"
    /\ LET loc == race_call(heap, acc, arg.other[t])
       IN  IF heap[loc.self].refcnt > 1
           THEN /\ ret' = [ret EXCEPT ![t] = Raise("SystemError")]
                /\ UNCHANGED <<cur, acc, heap>>
           ELSE \E to \in (Addrs \ DOMAIN heap) \cup {loc.self} :
                   LET r == race_realloc(heap, acc, loc, to)
                       c == race_copy(r.heap, r.acc, r.loc, arg.other[t])
                   IN  /\ heap' = c.heap
                       /\ acc' = c.acc
                       /\ cur' = [cur EXCEPT ![t] = r.loc]
                       /\ ret' = [ret EXCEPT ![t] = Ok(r.loc.new)]
    /\ pc' = [pc EXCEPT ![t] = "done"]
    /\ UNCHANGED <<op, self, arg, mem>>

\* the target, at address 1, with one reference or two, and the additions
\* of the two threads, at addresses 2 and 3
InitRace ==
    /\ op = "_concat_in_place"
    /\ pc = [t \in Threads |-> "call"]
    /\ ret = [t \in Threads |-> NoRet]
    /\ cur = [t \in Threads |-> NoLocals]
    /\ acc = [target |-> 1, freed |-> {}, gen |-> 0]
    /\ mem = NoMem
    /\ \E tb \in SeqsUpTo({97}, MaxLen),
          b1 \in SeqsUpTo({98}, MaxNeedle) \ {<<>>},
          b2 \in SeqsUpTo({99}, MaxNeedle) \ {<<>>},
          n \in 1..2 :
          /\ self = [_cstring_new(tb) EXCEPT !.refcnt = n]
          /\ heap = Store(Store(Store(NoHeap, 1, self),
                                2, _cstring_new(b1)), 3, _cstring_new(b2))
    /\ arg \in [serialized : BOOLEAN, other : {[t \in Threads |-> t + 1]}]

NextRace ==
    \E t \in Threads :
        \/ ThreadCall(t) \/ ThreadCheck(t) \/ ThreadRealloc(t)
        \/ ThreadCopy(t) \/ ThreadSerial(t)

SpecRace == InitRace /\ [][NextRace]_vars

\* a thread is about to reallocate, or to write, a block that another thread
\* has reallocated since this thread took it
StaleUse ==
    \E t \in Threads :
        \/ pc[t] = "realloc"
              /\ (cur[t].self \in acc.freed \/ acc.gen # cur[t].seen)
        \/ pc[t] = "copy"
              /\ (cur[t].new \in acc.freed \/ acc.gen # cur[t].seen + 1)

\* the bytes of the target after both additions, in either order
BothAppended ==
    LET a == Bytes(heap[arg.other[1]])
        b == Bytes(heap[arg.other[2]])
    IN  {Bytes(self) \o a \o b, Bytes(self) \o b \o a}

====
